---- MODULE Spec2Model ----
(***************************************************************************)
(* nntp2mbox: mirroring an NNTP group into an mbox archive with an sqlite  *)
(* index of message ids.  The model follows src/nntp2mbox.py: download()   *)
(* is split at its loop heads (range resolution, the checking loop, the    *)
(* retrieving loop, the final flush), the helpers stat/get/check/store are *)
(* operators, and the remote server, the archive file and the index file   *)
(* are the environment.                                                    *)
(***************************************************************************)
EXTENDS Integers, Sequences, FiniteSets, TLC

(* ---------------- program constants ---------------- *)

\* number of attempts in case of temporary error
attempts == 2

\* the literal of "msgno % 1000 == 0"
BatchSize == 1000

\* Python's None for the optional arguments number and start
None == -1

\* The module defines the globals status and attempts only; the name
\* "aggressive" read by stat() and get() is a parameter of download() and is
\* bound in no scope those two functions can see.
GlobalAggressiveBound == FALSE

(* ---------------- bounds of the model ---------------- *)

\* the group holds at most MaxSpan + 1 articles
MaxSpan == 1

\* number of download() runs against the collection
MaxRuns == 2

\* main() is called with at most MaxGroups group names
MaxGroups == 3

\* messages of an archive that exists before the first run
MaxArchive == 2

\* where only the checking loop is followed, the group holds at most
\* ProbeSpan + 1 articles
ProbeSpan == 4

(* ---------------- state ---------------- *)

VARIABLES
    remoteFirst, remoteLast,   \* the article range the server reports for the group
    mbox,                      \* the archive: message ids in file order
    index,                     \* rows of the table "messages": message ids
    indexExists,               \* the index file group.db exists
    lockHeld,                  \* the archive's lock is taken
    mainHolds,                 \* ... by the run of download() followed here
    rival, rivalHolds,         \* another process running download() on the same group:
                               \* where it is, and whether it took the lock
    groups, gi, called,        \* main(): args.groups, groups dealt with, download() calls made
    pc, runs,                  \* position in download(), number of runs started
    dry_run, update, aggressive, number, start,   \* arguments of the run
    first, last, startnr,      \* the resolved range
    msgno, stack, length, count, status,          \* loop variables of download()
    sleeps, flushes, commits,  \* 30-second pauses, mbox.flush() and index.commit() calls of the run
    statCalls, getCalls,       \* remote STAT / ARTICLE commands of the run
    adds, inserts,             \* mbox.add() / INSERT statements of the run that succeeded
    attempted, failed,         \* numbers store() was called for / raised for
    statFailed,                \* numbers whose stat() raised in the checking loop
    lastCall,                  \* the last stat()/get() call: script served, calls made, result
    grown,                     \* the group received an article since the last run began
    repeat,                    \* this run repeats, with the same start and number and with no
                               \* new article in between, a completed update run
    prevClean,                 \* ... in which no check() and no store() raised
    onlyUpdates,               \* every run so far that opened the archive was an update run
    built                      \* the run called initialize_index()

remoteVars == <<remoteFirst, remoteLast>>
fileVars   == <<mbox, index, indexExists, lockHeld, mainHolds>>
extVars    == <<rival, rivalHolds, groups, gi, called>>
argVars    == <<dry_run, update, aggressive, number, start>>
rangeVars  == <<first, last, startnr>>
loopVars   == <<msgno, stack, length, count, status>>
obsVars    == <<sleeps, flushes, commits, statCalls, getCalls, adds, inserts,
                attempted, failed, statFailed>>
histVars   == <<grown, repeat, prevClean, onlyUpdates, built>>

vars == <<remoteVars, fileVars, pc, runs, argVars, rangeVars, loopVars, obsVars, lastCall,
          histVars, extVars>>

(* ---------------- helpers of the source ---------------- *)

Max(a, b) == IF a >= b THEN a ELSE b
Min(a, b) == IF a <= b THEN a ELSE b

\* Python truthiness of an optional int argument: None and 0 are false
Truthy(x) == x # None /\ x # 0

\* the message id of article n (Message-Id header and STAT answer agree)
MsgIdOf(n) == n

Range(s) == {s[i] : i \in 1..Len(s)}

\* a lookup that never finds a row
contains_never(idx, msgid) == FALSE

\* contains(): SELECT * FROM messages WHERE msgid=?
contains(idx, msgid) == \E i \in 1..Len(idx) : idx[i] = msgid

\* what the server answers to one command
Outcomes == {"ok", "temp", "perm"}
Scripts  == [1..attempts -> Outcomes]

\* the loop "for attempt in range(attempts)" of stat() and get(); a is the
\* 1-based attempt about to be made
RECURSIVE RetryLoop(_, _)
RetryLoop(script, a) ==
    IF a > attempts
    THEN \* for/else: "Failed to download after %d attempts", then the
         \* statement after the loop reads a name that was never bound
         [calls |-> attempts, result |-> "UnboundLocalError", gaveUp |-> TRUE]
    ELSE IF script[a] = "ok"
    THEN [calls |-> a, result |-> "ok", gaveUp |-> FALSE]
    ELSE IF script[a] = "perm"
    THEN [calls |-> a, result |-> "NNTPPermanentError", gaveUp |-> FALSE]
    ELSE \* NNTPTemporaryError: print, then evaluate "if not aggressive"
         IF GlobalAggressiveBound
         THEN RetryLoop(script, a + 1)
         ELSE [calls |-> a, result |-> "NameError", gaveUp |-> FALSE]

stat(script) == RetryLoop(script, 1)

get(script, decodeOk) ==
    LET r == RetryLoop(script, 1)
    IN  IF r.result = "ok" /\ ~decodeOk
        THEN [r EXCEPT !.result = "UnicodeDecodeError"]
        ELSE r

\* check() that queues whether or not the id is indexed
check_noSkip(idx, script, m, upd) ==
    IF upd
    THEN LET r == RetryLoop(script, 1)
         IN  IF r.result # "ok"
             THEN [raised |-> TRUE, queue |-> FALSE, calls |-> r.calls, res |-> r.result]
             ELSE [raised |-> FALSE, queue |-> TRUE, calls |-> r.calls, res |-> "ok"]
    ELSE [raised |-> FALSE, queue |-> TRUE, calls |-> 0, res |-> "none"]

\* check(): queue the number unless, in update mode, its id is indexed
check(idx, script, m, upd) ==
    IF upd
    THEN LET r == stat(script)
         IN  IF r.result # "ok"
             THEN [raised |-> TRUE, queue |-> FALSE, calls |-> r.calls, res |-> r.result]
             ELSE [raised |-> FALSE, queue |-> ~contains(idx, MsgIdOf(m)),
                   calls |-> r.calls, res |-> "ok"]
    ELSE [raised |-> FALSE, queue |-> TRUE, calls |-> 0, res |-> "none"]

\* range resolution that does not hold the start at the first article
ResolveStart_noFloor(f, l, s, n) ==
    IF Truthy(s)
    THEN Min(Max(f, s), l)
    ELSE IF Truthy(n) THEN l - n ELSE f

\* range resolution of download()
ResolveStart(f, l, s, n) ==
    IF Truthy(s)
    THEN Min(Max(f, s), l)
    ELSE IF Truthy(n) THEN Max(f, l - n) ELSE f

ResolveLast(f, l, s, n) ==
    IF Truthy(s) /\ Truthy(n)
    THEN Min(ResolveStart(f, l, s, n) + n, l)
    ELSE l

\* an initialize_index() that creates the table and reads no message
initialize_index_empty(mb) == <<>>

\* initialize_index(): one row per message of the archive
initialize_index(mb) == [i \in 1..Len(mb) |-> mb[i]]

NoCall == [op |-> "none", script |-> [i \in 1..attempts |-> "ok"], calls |-> 0,
           result |-> "none", gaveUp |-> FALSE]

\* the arguments number and start the runs are called with
NumberVals == {None, 1}
StartVals  == {None, BatchSize}

Idle == pc \in {"idle", "done", "aborted"}

\* no other process, and main() not followed
NoOthers ==
    /\ rival = "idle" /\ rivalHolds = FALSE
    /\ groups = <<>> /\ gi = 0 /\ called = <<>>

(* ---------------- initial state ---------------- *)

Init ==
    /\ remoteFirst = BatchSize - 1
    /\ remoteLast \in remoteFirst .. remoteFirst + MaxSpan
    /\ mbox = <<>> /\ index = <<>> /\ indexExists = FALSE /\ lockHeld = FALSE /\ mainHolds = FALSE
    /\ pc = "idle" /\ runs = 0
    /\ dry_run = FALSE /\ update = FALSE /\ aggressive = FALSE
    /\ number = None /\ start = None
    /\ first = 0 /\ last = 0 /\ startnr = 0
    /\ msgno = 0 /\ stack = <<>> /\ length = 0 /\ count = 0 /\ status = 0
    /\ sleeps = 0 /\ flushes = 0 /\ commits = 0 /\ statCalls = 0 /\ getCalls = 0
    /\ adds = 0 /\ inserts = 0
    /\ attempted = {} /\ failed = {} /\ statFailed = {}
    /\ lastCall = NoCall
    /\ grown = FALSE /\ repeat = FALSE /\ prevClean = FALSE /\ onlyUpdates = TRUE
    /\ built = FALSE
    /\ NoOthers


(* ---------------- the operations of download() ---------------- *)

\* index_msg(): INSERT INTO messages VALUES(msgid, date, sender, subject);
\* the table has no key, so the row is added whatever it holds already
index_msg(idx, msgid) == Append(idx, msgid)

\* store(): get, mbox.add, index_msg, index.commit in this order; the first
\* statement that raises ends the call and leaves the earlier effects
store(mb, idx, m, script, decodeOk, addOk, insOk) ==
    LET g == get(script, decodeOk)
    IN  IF g.result # "ok"
        THEN [mbox |-> mb, index |-> idx, res |-> g.result, calls |-> g.calls,
              added |-> FALSE, inserted |-> FALSE]
        ELSE IF ~addOk
        THEN [mbox |-> mb, index |-> idx, res |-> "mailbox.Error", calls |-> g.calls,
              added |-> FALSE, inserted |-> FALSE]
        ELSE IF ~insOk
        THEN [mbox |-> Append(mb, MsgIdOf(m)), index |-> idx, res |-> "sqlite3.Error",
              calls |-> g.calls, added |-> TRUE, inserted |-> FALSE]
        ELSE [mbox |-> Append(mb, MsgIdOf(m)), index |-> index_msg(idx, MsgIdOf(m)),
              res |-> "ok", calls |-> g.calls, added |-> TRUE, inserted |-> TRUE]

\* the pause of the checking loop
sleepDue(aggr, m, s) == ~aggr /\ (m % BatchSize = 0) /\ (m # s)

\* a status that counts the numbers still to check
CheckStatus_remaining(l, m, s) == (100 * (m - s)) \div (l - s)

\* status of the checking loop: int(100 * (last - msgno) / (last - startnr))
CheckStatus(l, m, s) == (100 * (l - m)) \div (l - s)

\* status of the retrieving loop: int(100 * count / length)
FetchStatus(c, len) == (100 * c) \div len

\* the loop body without "if dry_run: continue"
CheckIter_noDry(dry, upd, idx, m, l, s, script) ==
    IF l = s
    THEN [kind |-> "zerodiv", calls |-> 0, res |-> "none"]
    ELSE LET c == check(idx, script, m, upd)
         IN  IF c.raised THEN [kind |-> "raised", calls |-> c.calls, res |-> c.res]
             ELSE IF c.queue THEN [kind |-> "queue", calls |-> c.calls, res |-> c.res]
             ELSE [kind |-> "break", calls |-> c.calls, res |-> c.res]

\* a loop body that takes a probe that raised for the end of the scan
CheckIter_gapStops(dry, upd, idx, m, l, s, script) ==
    IF dry
    THEN [kind |-> "dry", calls |-> 0, res |-> "none"]
    ELSE IF l = s
    THEN [kind |-> "zerodiv", calls |-> 0, res |-> "none"]
    ELSE LET c == check(idx, script, m, upd)
         IN  IF c.raised THEN [kind |-> "break", calls |-> c.calls, res |-> c.res]
             ELSE IF c.queue THEN [kind |-> "queue", calls |-> c.calls, res |-> c.res]
             ELSE [kind |-> "break", calls |-> c.calls, res |-> c.res]

\* a loop body that goes on scanning after it met an indexed id
CheckIter_noBreak(dry, upd, idx, m, l, s, script) ==
    IF dry
    THEN [kind |-> "dry", calls |-> 0, res |-> "none"]
    ELSE IF l = s
    THEN [kind |-> "zerodiv", calls |-> 0, res |-> "none"]
    ELSE LET c == check(idx, script, m, upd)
         IN  IF c.raised THEN [kind |-> "raised", calls |-> c.calls, res |-> c.res]
             ELSE IF c.queue THEN [kind |-> "queue", calls |-> c.calls, res |-> c.res]
             ELSE [kind |-> "skip", calls |-> c.calls, res |-> c.res]

\* one pass through the body of the checking loop for number m
CheckIter(dry, upd, idx, m, l, s, script) ==
    IF dry
    THEN [kind |-> "dry", calls |-> 0, res |-> "none"]
    ELSE IF l = s
    THEN \* 100 * (last - msgno) / 0 raises ZeroDivisionError, caught by the bare except
         [kind |-> "zerodiv", calls |-> 0, res |-> "none"]
    ELSE LET c == check(idx, script, m, upd)
         IN  IF c.raised THEN [kind |-> "raised", calls |-> c.calls, res |-> c.res]
             ELSE IF c.queue THEN [kind |-> "queue", calls |-> c.calls, res |-> c.res]
             ELSE [kind |-> "break", calls |-> c.calls, res |-> c.res]

\* a retrieving loop without the try/except around store()
FetchLoopNext_abort(res) == IF res = "ok" THEN "fetch" ELSE "aborted"

\* where the retrieving loop goes after store() returned or raised: the bare
\* except swallows every exception
FetchLoopNext(res) == "fetch"

\* the archive and the index are opened only when the run is not a dry run
OpensFiles(dry) == ~dry

\* a run that opens the archive without mbox.lock()
TakesLock_never(dry) == FALSE

\* mbox.lock() follows the opening of the archive
TakesLock(dry) == OpensFiles(dry)

ResetObs ==
    /\ sleeps' = 0 /\ flushes' = 0 /\ commits' = 0 /\ statCalls' = 0 /\ getCalls' = 0
    /\ adds' = 0 /\ inserts' = 0
    /\ attempted' = {} /\ failed' = {} /\ statFailed' = {}

SetArgs(d, u, a, n, s) ==
    /\ dry_run' = d /\ update' = u /\ aggressive' = a /\ number' = n /\ start' = s

\* download() from its entry to the head of the checking loop: the archive is
\* opened and locked, the index opened or built, the group selected and the
\* range resolved
Begin(d, u, a, n, s) ==
    /\ TakesLock(d) => ~lockHeld
    /\ SetArgs(d, u, a, n, s)
    /\ IF OpensFiles(d)
       THEN /\ lockHeld' = (lockHeld \/ TakesLock(d))
            /\ mainHolds' = TakesLock(d)
            /\ indexExists' = TRUE
            /\ index' = IF indexExists THEN index ELSE initialize_index(mbox)
            /\ mbox' = mbox
       ELSE UNCHANGED fileVars
    /\ first' = remoteFirst
    /\ startnr' = ResolveStart(remoteFirst, remoteLast, s, n)
    /\ last' = ResolveLast(remoteFirst, remoteLast, s, n)
    /\ msgno' = ResolveLast(remoteFirst, remoteLast, s, n)
    /\ repeat' = (pc = "done" /\ ~grown /\ update /\ ~dry_run /\ u /\ ~d
                   /\ s = start /\ n = number)
    /\ prevClean' = (repeat' /\ failed = {} /\ statFailed = {})
    /\ onlyUpdates' = (onlyUpdates /\ (u \/ ~OpensFiles(d)))
    /\ built' = (OpensFiles(d) /\ ~indexExists)
    /\ stack' = <<>> /\ length' = 0 /\ count' = 0 /\ status' = 0
    /\ pc' = "check" /\ runs' = runs + 1
    /\ ResetObs
    /\ grown' = FALSE
    /\ UNCHANGED <<remoteVars, lastCall, extVars>>

\* a run of download() with any of the arguments
DownloadBegin ==
    /\ Idle /\ runs < MaxRuns
    /\ \E d \in BOOLEAN, u \in BOOLEAN, a \in BOOLEAN, n \in NumberVals, s \in StartVals :
        Begin(d, u, a, n, s)

\* download() ended by an exception before the loops: the archive is locked
\* by someone else, or the connection to the server fails after the archive
\* was locked and the index opened
Abort(d, u, a, n, s) ==
    /\ SetArgs(d, u, a, n, s)
    /\ IF TakesLock(d) /\ ~lockHeld
       THEN /\ lockHeld' = TRUE
            /\ mainHolds' = TRUE
            /\ indexExists' = TRUE
            /\ index' = IF indexExists THEN index ELSE initialize_index(mbox)
            /\ mbox' = mbox
       ELSE UNCHANGED fileVars
    /\ pc' = "aborted" /\ runs' = runs + 1
    /\ stack' = <<>> /\ length' = 0 /\ count' = 0 /\ status' = 0 /\ msgno' = 0
    /\ ResetObs
    /\ built' = (TakesLock(d) /\ ~lockHeld /\ ~indexExists)
    /\ UNCHANGED <<remoteVars, rangeVars, lastCall, grown, repeat, prevClean, onlyUpdates, extVars>>

\* a run of download(), with any of the arguments, that ends so
DownloadAbort ==
    /\ Idle /\ runs < MaxRuns
    /\ \E d \in BOOLEAN, u \in BOOLEAN, a \in BOOLEAN, n \in NumberVals, s \in StartVals :
        Abort(d, u, a, n, s)

\* the server receives a new article between two runs
RemoteGrow ==
    /\ Idle /\ runs < MaxRuns
    /\ remoteLast < remoteFirst + MaxSpan
    /\ remoteLast' = remoteLast + 1
    /\ grown' = TRUE
    /\ UNCHANGED <<remoteFirst, fileVars, pc, runs, argVars, rangeVars, loopVars, obsVars,
                   lastCall, repeat, prevClean, onlyUpdates, built, extVars>>

\* one iteration of "for msgno in reversed(range(startnr, last + 1))"
CheckStep ==
    /\ pc = "check"
    /\ \E script \in Scripts :
        LET it == CheckIter(dry_run, update, index, msgno, last, startnr, script)
        IN  /\ sleeps' = sleeps + (IF sleepDue(aggressive, msgno, startnr) THEN 1 ELSE 0)
            /\ status' = IF it.kind \in {"raised", "queue", "break"}
                         THEN CheckStatus(last, msgno, startnr) ELSE status
            /\ stack' = IF it.kind = "queue" THEN Append(stack, msgno) ELSE stack
            /\ statCalls' = statCalls + it.calls
            /\ statFailed' = IF it.kind = "raised" THEN statFailed \cup {msgno} ELSE statFailed
            /\ IF it.kind = "break" \/ msgno = startnr
               THEN pc' = "checked" /\ msgno' = msgno
               ELSE pc' = "check" /\ msgno' = msgno - 1
    /\ UNCHANGED <<remoteVars, fileVars, runs, argVars, rangeVars, length, count,
                   flushes, commits, getCalls, adds, inserts, attempted, failed, lastCall,
                   histVars, extVars>>

\* between the loops: length = len(stack), count = 0
BeginFetch ==
    /\ pc = "checked"
    /\ length' = Len(stack) /\ count' = 0
    /\ pc' = "fetch"
    /\ UNCHANGED <<remoteVars, fileVars, runs, argVars, rangeVars, msgno, stack, status,
                   obsVars, lastCall, histVars, extVars>>

\* stack.pop() with the first element taken instead of the last
PopIndex_front(stk) == 1

\* stack.pop(): the position of the element taken, the last one
PopIndex(stk) == Len(stk)

\* the list left by a pop at position i
PopRest(stk, i) == SubSeq(stk, 1, i - 1) \o SubSeq(stk, i + 1, Len(stk))

\* one iteration of "while stack": pop the last element and store it
FetchStep ==
    /\ pc = "fetch" /\ stack # <<>>
    /\ \E script \in Scripts, decodeOk \in BOOLEAN, addOk \in BOOLEAN, insOk \in BOOLEAN :
        LET m == stack[PopIndex(stack)]
            r == store(mbox, index, m, script, decodeOk, addOk, insOk)
        IN  /\ count' = count + 1
            /\ status' = FetchStatus(count + 1, length)
            /\ msgno' = m
            /\ stack' = PopRest(stack, PopIndex(stack))
            /\ mbox' = r.mbox /\ index' = r.index
            /\ getCalls' = getCalls + r.calls
            /\ adds' = adds + (IF r.added THEN 1 ELSE 0)
            /\ inserts' = inserts + (IF r.inserted THEN 1 ELSE 0)
            /\ commits' = commits + (IF r.res = "ok" THEN 1 ELSE 0)
            /\ attempted' = attempted \cup {m}
            /\ failed' = IF r.res = "ok" THEN failed ELSE failed \cup {m}
            /\ pc' = FetchLoopNext(r.res)
    /\ UNCHANGED <<remoteVars, indexExists, lockHeld, mainHolds, runs, argVars, rangeVars,
                   length, sleeps, flushes, statCalls, statFailed, lastCall, histVars, extVars>>

\* after the loops: flush and unlock the archive, close the index, quit
Finish ==
    /\ pc = "fetch" /\ stack = <<>>
    /\ IF OpensFiles(dry_run)
       THEN \* mbox.unlock() releases the lock if this mailbox object took it
            /\ flushes' = flushes + 1
            /\ lockHeld' = (lockHeld /\ ~mainHolds)
            /\ mainHolds' = FALSE
       ELSE UNCHANGED <<flushes, lockHeld, mainHolds>>
    /\ pc' = "done"
    /\ UNCHANGED <<remoteVars, mbox, index, indexExists, runs, argVars, rangeVars, loopVars,
                   sleeps, commits, statCalls, getCalls, adds, inserts, attempted, failed,
                   statFailed, lastCall, histVars, extVars>>

Next ==
    \/ DownloadBegin
    \/ DownloadAbort
    \/ RemoteGrow
    \/ CheckStep
    \/ BeginFetch
    \/ FetchStep
    \/ Finish

Spec == Init /\ [][Next]_vars

(* ---------------- range resolution on its own ---------------- *)

\* group ranges and arguments the resolution is applied to
RangeFirsts  == {1, 100}
RangeLasts   == {100, 205, 500}
RangeStarts  == {None, 0, 50, 200, 600}
RangeNumbers == {None, 0, 1, 10, 50}

InitRange ==
    /\ remoteFirst \in RangeFirsts
    /\ remoteLast \in RangeLasts
    /\ remoteFirst <= remoteLast
    /\ start \in RangeStarts /\ number \in RangeNumbers
    /\ update \in BOOLEAN
    /\ mbox = <<>> /\ index = <<>> /\ indexExists = FALSE /\ lockHeld = FALSE /\ mainHolds = FALSE
    /\ pc = "range" /\ runs = 0
    /\ dry_run = TRUE /\ aggressive = FALSE
    /\ first = 0 /\ last = 0 /\ startnr = 0
    /\ msgno = 0 /\ stack = <<>> /\ length = 0 /\ count = 0 /\ status = 0
    /\ sleeps = 0 /\ flushes = 0 /\ commits = 0 /\ statCalls = 0 /\ getCalls = 0
    /\ adds = 0 /\ inserts = 0
    /\ attempted = {} /\ failed = {} /\ statFailed = {}
    /\ lastCall = NoCall
    /\ grown = FALSE /\ repeat = FALSE /\ prevClean = FALSE /\ onlyUpdates = TRUE
    /\ built = FALSE
    /\ NoOthers

\* the statements of download() between nntpconn.group() and the checking loop
RangeResolve ==
    /\ pc = "range"
    /\ first' = remoteFirst
    /\ startnr' = ResolveStart(remoteFirst, remoteLast, start, number)
    /\ last' = ResolveLast(remoteFirst, remoteLast, start, number)
    /\ pc' = "ranged"
    /\ UNCHANGED <<remoteVars, fileVars, runs, argVars, loopVars, obsVars, lastCall, histVars, extVars>>

NextRange == RangeResolve

RangeSpec == InitRange /\ [][NextRange]_vars

(* ---------------- the retry wrappers on their own ---------------- *)

InitRetry ==
    /\ remoteFirst = BatchSize - 1
    /\ remoteLast = remoteFirst + MaxSpan
    /\ msgno \in remoteFirst .. remoteFirst + ProbeSpan
    /\ aggressive \in BOOLEAN
    /\ mbox = <<>> /\ index = <<>> /\ indexExists = FALSE /\ lockHeld = FALSE /\ mainHolds = FALSE
    /\ pc = "retry" /\ runs = 0
    /\ dry_run = FALSE /\ update = FALSE
    /\ number = None /\ start = None
    /\ first = 0 /\ last = 0 /\ startnr = 0
    /\ stack = <<>> /\ length = 0 /\ count = 0 /\ status = 0
    /\ sleeps = 0 /\ flushes = 0 /\ commits = 0 /\ statCalls = 0 /\ getCalls = 0
    /\ adds = 0 /\ inserts = 0
    /\ attempted = {} /\ failed = {} /\ statFailed = {}
    /\ lastCall = NoCall
    /\ grown = FALSE /\ repeat = FALSE /\ prevClean = FALSE /\ onlyUpdates = TRUE
    /\ built = FALSE
    /\ NoOthers

\* one call of stat(nntpconn, msgno) against a server that answers by script
StatCall ==
    /\ pc = "retry"
    /\ \E script \in Scripts :
        LET r == stat(script)
        IN  /\ lastCall' = [op |-> "stat", script |-> script, calls |-> r.calls,
                            result |-> r.result, gaveUp |-> r.gaveUp]
            /\ statCalls' = r.calls
    /\ pc' = "retried"
    /\ UNCHANGED <<remoteVars, fileVars, runs, argVars, rangeVars, loopVars, sleeps, flushes,
                   commits, getCalls, adds, inserts, attempted, failed, statFailed, histVars, extVars>>

\* one call of get(nntpconn, msgno)
GetCall ==
    /\ pc = "retry"
    /\ \E script \in Scripts, decodeOk \in BOOLEAN :
        LET r == get(script, decodeOk)
        IN  /\ lastCall' = [op |-> "get", script |-> script, calls |-> r.calls,
                            result |-> r.result, gaveUp |-> r.gaveUp]
            /\ getCalls' = r.calls
    /\ pc' = "retried"
    /\ UNCHANGED <<remoteVars, fileVars, runs, argVars, rangeVars, loopVars, sleeps, flushes,
                   commits, statCalls, adds, inserts, attempted, failed, statFailed, histVars, extVars>>

NextRetry == StatCall \/ GetCall

RetrySpec == InitRetry /\ [][NextRetry]_vars

(* ---------------- the checking loop of an update run on its own ---------------- *)

\* the archive and the index hold the articles first .. k - 1, stored by
\* earlier runs when the group ended there
Stored(f, k) == [i \in 1..(k - f) |-> MsgIdOf(f + i - 1)]

InitProbe ==
    /\ remoteFirst = BatchSize - 1
    /\ remoteLast \in remoteFirst .. remoteFirst + ProbeSpan
    /\ \E k \in remoteFirst .. remoteLast + 1 :
        /\ mbox = Stored(remoteFirst, k) /\ index = Stored(remoteFirst, k)
        /\ indexExists = (k > remoteFirst)
    /\ lockHeld = FALSE /\ mainHolds = FALSE
    /\ pc = "idle" /\ runs = 0
    /\ dry_run = FALSE /\ update = FALSE /\ aggressive = FALSE
    /\ number = None /\ start = None
    /\ first = 0 /\ last = 0 /\ startnr = 0
    /\ msgno = 0 /\ stack = <<>> /\ length = 0 /\ count = 0 /\ status = 0
    /\ sleeps = 0 /\ flushes = 0 /\ commits = 0 /\ statCalls = 0 /\ getCalls = 0
    /\ adds = 0 /\ inserts = 0
    /\ attempted = {} /\ failed = {} /\ statFailed = {}
    /\ lastCall = NoCall
    /\ grown = FALSE /\ repeat = FALSE /\ prevClean = FALSE /\ onlyUpdates = TRUE
    /\ built = FALSE
    /\ NoOthers

\* download(group, aggressive, False, update=True)
ProbeBegin ==
    /\ pc = "idle" /\ runs = 0
    /\ \E a \in BOOLEAN : Begin(FALSE, TRUE, a, None, None)

NextProbe == ProbeBegin \/ CheckStep \/ BeginFetch

ProbeSpec == InitProbe /\ [][NextProbe]_vars

(* ---------------- a run on an archive that exists already ---------------- *)

\* the archives a first run can find: any messages of the group, one of them
\* possibly twice
Archives == UNION {[1..k -> {MsgIdOf(n) : n \in BatchSize - 1 .. BatchSize}] : k \in 0..MaxArchive}

\* group.mbox exists; group.db does not exist, or holds the rows of the
\* first messages of the archive
InitBoot ==
    /\ remoteFirst = BatchSize - 1
    /\ remoteLast \in remoteFirst .. remoteFirst + MaxSpan
    /\ mbox \in Archives
    /\ indexExists \in BOOLEAN
    /\ \E j \in 0..Len(mbox) : index = IF indexExists THEN SubSeq(mbox, 1, j) ELSE <<>>
    /\ lockHeld = FALSE /\ mainHolds = FALSE
    /\ pc = "idle" /\ runs = 0
    /\ dry_run = FALSE /\ update = FALSE /\ aggressive = FALSE
    /\ number = None /\ start = None
    /\ first = 0 /\ last = 0 /\ startnr = 0
    /\ msgno = 0 /\ stack = <<>> /\ length = 0 /\ count = 0 /\ status = 0
    /\ sleeps = 0 /\ flushes = 0 /\ commits = 0 /\ statCalls = 0 /\ getCalls = 0
    /\ adds = 0 /\ inserts = 0
    /\ attempted = {} /\ failed = {} /\ statFailed = {}
    /\ lastCall = NoCall
    /\ grown = FALSE /\ repeat = FALSE /\ prevClean = FALSE /\ onlyUpdates = TRUE
    /\ built = FALSE
    /\ NoOthers

\* download(group, True, dry_run, update=update)
BootBegin ==
    /\ pc = "idle" /\ runs = 0
    /\ \E d \in BOOLEAN, u \in BOOLEAN : Begin(d, u, TRUE, None, None)

\* ... ended by an exception after the archive was locked and the index opened
BootAbort ==
    /\ pc = "idle" /\ runs = 0
    /\ \E d \in BOOLEAN, u \in BOOLEAN : Abort(d, u, TRUE, None, None)

NextBoot ==
    \/ BootBegin
    \/ BootAbort
    \/ CheckStep
    \/ BeginFetch
    \/ FetchStep
    \/ Finish

BootSpec == InitBoot /\ [][NextBoot]_vars

(* ---------------- two runs of download() on one group ---------------- *)

\* the run followed step by step: download(group, True, False), with or
\* without update
ConcBegin ==
    /\ pc = "idle" /\ runs = 0
    /\ \E u \in BOOLEAN : Begin(FALSE, u, TRUE, None, None)

\* ... which ends at once, the archive being locked or the server not answering
ConcAbort ==
    /\ pc = "idle" /\ runs = 0
    /\ \E u \in BOOLEAN : Abort(FALSE, u, TRUE, None, None)

RivalUnchanged ==
    UNCHANGED <<remoteVars, pc, runs, argVars, rangeVars, loopVars, obsVars, lastCall,
                histVars, groups, gi, called, mainHolds>>

\* the other process enters download(): mbox.lock() succeeds, the index is
\* opened or built
RivalBegin ==
    /\ rival = "idle"
    /\ TakesLock(FALSE) => ~lockHeld
    /\ lockHeld' = (lockHeld \/ TakesLock(FALSE))
    /\ rivalHolds' = TakesLock(FALSE)
    /\ indexExists' = TRUE
    /\ index' = IF indexExists THEN index ELSE initialize_index(mbox)
    /\ mbox' = mbox
    /\ rival' = "running"
    /\ RivalUnchanged

\* the other process enters download() and mbox.lock() raises
\* ExternalClashError: its run is over
RivalClash ==
    /\ rival = "idle"
    /\ TakesLock(FALSE) /\ lockHeld
    /\ rival' = "aborted"
    /\ UNCHANGED <<mbox, index, indexExists, lockHeld, rivalHolds>>
    /\ RivalUnchanged

\* the other process stores an article
RivalStore ==
    /\ rival = "running"
    /\ \E m \in remoteFirst .. remoteLast :
        /\ mbox' = Append(mbox, MsgIdOf(m))
        /\ index' = index_msg(index, MsgIdOf(m))
    /\ rival' = "stored"
    /\ UNCHANGED <<indexExists, lockHeld, rivalHolds>>
    /\ RivalUnchanged

\* the other process flushes and unlocks the archive and closes the index
RivalFinish ==
    /\ rival \in {"running", "stored"}
    /\ lockHeld' = (lockHeld /\ ~rivalHolds)
    /\ rivalHolds' = FALSE
    /\ rival' = "done"
    /\ UNCHANGED <<mbox, index, indexExists>>
    /\ RivalUnchanged

NextConc ==
    \/ ConcBegin
    \/ ConcAbort
    \/ CheckStep
    \/ BeginFetch
    \/ FetchStep
    \/ Finish
    \/ RivalBegin
    \/ RivalClash
    \/ RivalStore
    \/ RivalFinish

ConcSpec == Init /\ [][NextConc]_vars

(* ---------------- main(): the loop over the groups ---------------- *)

GroupNames == {"gmane.a", "gmane.b"}

\* how a call of download() ends: it returns, or it raises because the
\* archive cannot be opened or locked, the server cannot be reached, or the
\* server does not know the group
DownloadEnds == {"returned", "OSError", "ExternalClashError", "ConnectionError",
                 "NNTPTemporaryError"}

InitMain ==
    /\ groups \in UNION {[1..k -> GroupNames] : k \in 1..MaxGroups}
    /\ gi = 0 /\ called = <<>>
    /\ rival = "idle" /\ rivalHolds = FALSE
    /\ remoteFirst = BatchSize - 1 /\ remoteLast = remoteFirst
    /\ mbox = <<>> /\ index = <<>> /\ indexExists = FALSE
    /\ lockHeld = FALSE /\ mainHolds = FALSE
    /\ pc = "main" /\ runs = 0
    /\ dry_run = FALSE /\ update = FALSE /\ aggressive = FALSE
    /\ number = None /\ start = None
    /\ first = 0 /\ last = 0 /\ startnr = 0
    /\ msgno = 0 /\ stack = <<>> /\ length = 0 /\ count = 0 /\ status = 0
    /\ sleeps = 0 /\ flushes = 0 /\ commits = 0 /\ statCalls = 0 /\ getCalls = 0
    /\ adds = 0 /\ inserts = 0
    /\ attempted = {} /\ failed = {} /\ statFailed = {}
    /\ lastCall = NoCall
    /\ grown = FALSE /\ repeat = FALSE /\ prevClean = FALSE /\ onlyUpdates = TRUE
    /\ built = FALSE

\* a loop that an exception of download() leaves
MainAfterRaise_leaves(i, n) == n

\* the group main() turns to after download() raised for the i-th of n: the
\* bare except prints the traceback and the for loop goes on
MainAfterRaise(i, n) == i

MainUnchanged ==
    UNCHANGED <<remoteVars, fileVars, pc, runs, argVars, rangeVars, loopVars, obsVars,
                lastCall, histVars, rival, rivalHolds, groups>>

\* download(group, ...) is called for the next group and returns
MainDownloadReturns ==
    /\ pc = "main" /\ gi < Len(groups)
    /\ called' = Append(called, <<groups[gi + 1], "returned">>)
    /\ gi' = gi + 1
    /\ MainUnchanged

\* download(group, ...) is called for the next group and raises
MainDownloadRaises ==
    /\ pc = "main" /\ gi < Len(groups)
    /\ \E e \in DownloadEnds \ {"returned"} :
        called' = Append(called, <<groups[gi + 1], e>>)
    /\ gi' = MainAfterRaise(gi + 1, Len(groups))
    /\ MainUnchanged

NextMain == MainDownloadReturns \/ MainDownloadRaises

MainSpec == InitMain /\ [][NextMain]_vars

(* ---------------- properties ---------------- *)

Running == {"check", "checked", "fetch", "done"}

C2_BoundaryCorrect ==
    (/\ pc = "checked" /\ update /\ ~dry_run
     /\ startnr = first /\ last = remoteLast /\ statFailed = {})
    => \A k \in first .. last + 1 :
          ({m \in first..last : contains(index, MsgIdOf(m))} = first .. k - 1)
          => Range(stack) = k .. last

\* C3: a wrapper call served attempts-1 temporary errors and then an answer
\* gets the answer (get() then goes on to decode it); served attempts temporary errors it makes attempts
\* calls and gives up with the "Failed to download" report.
C3_RetryBound ==
    pc = "retried" =>
        /\ ((\A i \in 1..attempts - 1 : lastCall.script[i] = "temp")
              /\ lastCall.script[attempts] = "ok")
           => lastCall.result \in {"ok", "UnicodeDecodeError"}
        /\ (\A i \in 1..attempts : lastCall.script[i] = "temp")
           => (lastCall.calls = attempts /\ lastCall.gaveUp)

\* C4: when a run that is not a dry run has ended, a message id is in the
\* archive if and only if it is in the index.
C4_AtomicPairing ==
    (pc = "done" /\ ~dry_run) => Range(mbox) = Range(index)

\* C5: with an explicit start and a count, the resolved end is
\* min(remoteLast, start' + count - 1), start' being the clamped start, and
\* the range holds at most count numbers.
C5_CountWithStart ==
    (pc = "ranged" /\ start # None /\ start > 0 /\ number # None /\ number > 0)
    => /\ last = Min(remoteLast, Min(Max(remoteFirst, start), remoteLast) + number - 1)
       /\ last - startnr + 1 <= number

C7_ExplicitStart ==
    (pc = "ranged" /\ start # None)
    => /\ startnr = Min(Max(remoteFirst, start), remoteLast)
       /\ number = None => last = remoteLast

\* C8: while a run retrieves, the archive has been flushed once per 1000
\* processed items and, unless aggressive, the run has paused 30 seconds as
\* often.
C8_CheckpointBatching ==
    (pc \in {"check", "checked", "fetch"} /\ ~dry_run)
    => /\ flushes = count \div BatchSize
       /\ sleeps = (IF aggressive THEN 0 ELSE count \div BatchSize)

\* C9 (as stated): a dry run in update mode performs the boundary search,
\* that is, it probes the server with STAT.
C9_DryRunSearches ==
    (pc = "done" /\ dry_run /\ update /\ last > startnr) => statCalls > 0

\* C9 (amended): a dry run issues no STAT and no ARTICLE command, queues
\* nothing, leaves the archive, the index, the index file and the lock as
\* they are, and goes from loop to loop to its normal end.
C9_DryRunNoEffect ==
    [][ /\ (dry_run' /\ pc' \in Running)
           => /\ mbox' = mbox /\ index' = index
              /\ indexExists' = indexExists /\ lockHeld' = lockHeld
              /\ statCalls' = 0 /\ getCalls' = 0 /\ adds' = 0 /\ inserts' = 0
              /\ stack' = <<>>
        /\ (dry_run /\ pc \in {"check", "checked", "fetch"})
           => (dry_run' /\ pc' \in Running)
      ]_vars

\* a dry run in update mode over several articles, some of them indexed by
\* an earlier run, has ended
C9_Witness ==
    /\ pc = "done" /\ dry_run /\ update
    /\ last > startnr /\ index # <<>>

\* C10: a store() that raises does not end the run: every queued number is
\* passed to store() and the run reaches its normal end, where the archive
\* is flushed and unlocked.
C10_ErrorIsolation ==
    /\ pc = "fetch" => (count = Cardinality(attempted) /\ count + Len(stack) = length)
    /\ pc = "done" => /\ Cardinality(attempted) = length
                      /\ OpensFiles(dry_run) => (flushes = 1 /\ ~lockHeld)
    /\ failed # {} => pc \in {"fetch", "done"}

\* a run has ended in which store() raised for one number and stored a
\* later one
C10_Witness ==
    /\ pc = "done"
    /\ \E m \in failed : \E k \in attempted \ failed : k > m

\* the highest number of the range whose probe was answered and whose id is
\* indexed, startnr - 1 when there is none
ScanStop ==
    LET hit == {m \in startnr..last : m \notin statFailed /\ contains(index, MsgIdOf(m))}
    IN  IF hit = {} THEN startnr - 1 ELSE CHOOSE m \in hit : \A k \in hit : k <= m

\* C11: in an update run a number whose STAT raises (an absent article) does
\* not end the run and does not end the scan: it is not queued, and when the
\* checking loop is over the queue holds every answered number above the
\* highest answered and indexed one.
C11_GapTolerance ==
    /\ (statFailed # {} => pc \in Running)
    /\ (pc = "checked" /\ update /\ ~dry_run /\ last > startnr)
       => Range(stack) = {m \in ScanStop + 1 .. last : m \notin statFailed}

\* the scan has passed an absent number k: k + 1 and k - 1 are both queued
C11_Witness ==
    /\ pc = "checked" /\ update /\ ~dry_run
    /\ \E k \in statFailed : (k + 1) \in Range(stack) /\ (k - 1) \in Range(stack)

\* no element occurs twice in the sequence
NoDup(q) == \A i, j \in 1..Len(q) : i # j => q[i] # q[j]

RECURSIVE CeilLog2(_)
CeilLog2(n) == IF n <= 1 THEN 0 ELSE 1 + CeilLog2((n + 1) \div 2)

C13_CollectionIsolation ==
    /\ gi <= Len(groups) /\ Len(called) = gi
    /\ \A i \in 1..Len(called) : called[i][1] = groups[i]

\* download() raised for one group and was called for the groups after it
C13_Witness ==
    /\ gi = Len(groups) /\ Len(groups) >= 3
    /\ called[1][2] # "returned" /\ called[2][2] # "returned"
    /\ called[3][1] = groups[3]

\* C14: of two runs on one group at most one holds the archive's lock, and
\* a run appends to the archive and inserts into the index only while it
\* holds the lock (so only while the other does not).
C14_LockExclusion ==
    [][ /\ ~(mainHolds' /\ rivalHolds')
        /\ (adds' > adds \/ inserts' > inserts) => mainHolds'
        /\ (rival # "stored" /\ rival' = "stored") => rivalHolds'
      ]_vars

\* the run followed here has stored an article under the lock, and the
\* other run, started meanwhile, was refused the lock
C14_Witness ==
    /\ pc = "fetch" /\ adds >= 1 /\ mainHolds
    /\ rival = "aborted"

\* C16: within one run the retrieving loop takes the sequence numbers in
\* strictly ascending order: each store() is for a number greater than every
\* number the run tried before.
C16_AscendingFetch ==
    [][ (pc = "fetch" /\ attempted' # attempted)
            => \A k \in attempted : k < msgno' ]_vars

\* a run that has made two store() calls
C16_Witness ==
    /\ pc \in {"fetch", "done"} /\ ~dry_run
    /\ Cardinality(attempted) >= 2
    /\ \A k \in attempted : k <= msgno

C18_IndexBootstrap ==
    [][ (pc = "idle" /\ pc' # "idle" /\ mainHolds') =>
          /\ statCalls' = 0 /\ getCalls' = 0
          /\ mbox' = mbox /\ indexExists'
          /\ built' = ~indexExists
          /\ IF indexExists
             THEN index' = index
             ELSE /\ Len(index') = Len(mbox)
                  /\ \A i \in 1..Len(mbox) : index'[i] = mbox[i]
                  /\ Range(index') = Range(mbox')
      ]_vars

\* a run has begun on an archive of two messages with no index file: the
\* index was built and no command has been sent yet
C18_Witness ==
    /\ pc = "check" /\ ~dry_run /\ built
    /\ Len(mbox) = 2 /\ Len(index) = 2 /\ Range(index) = Range(mbox)
    /\ statCalls = 0 /\ getCalls = 0 /\ msgno = last

\* C19: a run that is neither a dry run nor an update run, over a range that
\* is not empty, has called store() once for every number of the range
\* when it ends.
C19_FullCoverage ==
    (pc = "done" /\ ~dry_run /\ ~update /\ startnr <= last)
        => /\ attempted = startnr .. last
           /\ count = last - startnr + 1

\* C20: when a run has ended, by returning or by an exception, the archive
\* is not locked any more, so that the next run can lock it.
C20_LockReleased ==
    (pc \in {"done", "aborted"}) => (~mainHolds /\ ~lockHeld)

====
